---- MODULE Spec2Model ----
\* State-machine model of src/src/bot.py (class SlackBot): the retry loop
\* start_loop/start, the hooks on_step/on_message, the sender say, the
\* correlator say_complete and the peek/drain buffer operations.
\* Time is counted in whole seconds: the 10 ms of a polling slice are 0 seconds,
\* and a sleep may last longer than asked.
\* Timestamps are kept relative to the current instant: time.time() is Now,
\* always 0, and when d seconds pass every stored timestamp moves d seconds into
\* the past.  The code only compares the age of a timestamp with a fixed
\* threshold, so a timestamp older than its threshold is kept at the threshold.
EXTENDS Integers, Sequences, FiniteSets, TLC

\* ---------------------------------------------------------------- bounds
MaxOversleep == 1
MaxSays == 2
MaxEvents == 2

\* ------------------------------------------------------ program constants
RateLimit == 1
PingInterval == 5
Backoff == 5
Slice == 0
FirstMessageId == 1
Now == 0

\* Python's None, and a value that is not None
None == [none |-> TRUE]
Some(x) == [none |-> FALSE, value |-> x]

\* the snapshot of channels the transport exposes to the running bot
Channels == <<[id |-> "C1", name |-> "general"]>>
ChannelIds == {"C1", "CX"}
Timeouts == {-1, 0, 1}
Oversleeps == 0 .. MaxOversleep

Max(a, b) == IF a > b THEN a ELSE b

\* the timestamp `stamp` after d more seconds, ages beyond `horizon` alike
Past(stamp, d, horizon) == Max(stamp - d, 0 - horizon)

\* ------------------------------------------------------------- the events
\* An inbound event as rtm_read returns it.  n is the position of the event
\* in the stream of events read from the transport (its identity); reply_to
\* is 0 when the key is absent; ok is "absent" when the key is absent; ts is
\* the event's timestamp string (named after n) or 0 when it is missing or
\* not a string.  A reply refers to one of the message ids `ids`.
Shapes(ids) ==
    {[reply_to |-> 0, ok |-> "absent", ts_str |-> TRUE]}
    \cup {[reply_to |-> r, ok |-> "true", ts_str |-> b] : r \in ids, b \in BOOLEAN}
    \cup {[reply_to |-> r, ok |-> "false", ts_str |-> FALSE] : r \in ids}
    \cup {[reply_to |-> r, ok |-> "absent", ts_str |-> TRUE] : r \in ids}

ShapeBatches(ids, k) ==
    UNION {[1 .. len -> Shapes(ids)] : len \in 0 .. k}

MakeEvent(shape, n) ==
    [n |-> n, reply_to |-> shape.reply_to, ok |-> shape.ok,
     ts |-> IF shape.ts_str THEN n ELSE 0]

\* the batch one rtm_read call returns, the events numbered after `read`
MakeBatch(shapes, k) ==
    [i \in 1 .. Len(shapes) |-> MakeEvent(shapes[i], k + i)]

\* the identities of the events of a list
Ids(events) == [i \in 1 .. Len(events) |-> events[i].n]

VARIABLES
    env,                    \* the run: how many events and replies the transport
                            \* delivers, how many times the hooks call say and
                            \* which hooks do
    pc,                     \* position of the control thread in start_loop/start
    pending,                \* the rest of the list the for loop of start iterates
    last_ping,              \* local last_ping of start
    bot_user_id,            \* self.bot_user_id
    max_message_id,         \* self.max_message_id
    unprocessed_messages,   \* self.unprocessed_messages
    last_say_time,          \* self.last_say_time
    frame,                  \* the say / say_complete call in progress
    last_send,              \* history: time of the last handoff to the transport
    last_gap,               \* history: time between the last two handoffs
    assigned,               \* history: message ids assigned by say
    sends,                  \* history: handoffs to send_to_websocket
    sent_to,                \* history: the channel of the last handoff
    read,                   \* history: number of events rtm_read returned
    drained,                \* history: events (their n) returned by get_unprocessed_messages
    delivered,              \* history: events (their n) passed to on_message
    last_ret,               \* history: the last peek or drain of this tick and its result
    last_sc,                \* history: the last say_complete call of this tick
    tick,                   \* history: what the current tick did
    exit,                   \* history: the exception that ended the last call of start
    cancelled,              \* history: a KeyboardInterrupt was raised
    session,                \* history: what the current call of start has done
    lib                     \* a call of a library function (codec, directory,
                            \* debug bot) outside the loop: its input and result

vars == <<env, pc, pending, last_ping, bot_user_id, max_message_id,
          unprocessed_messages, last_say_time, frame, last_send, last_gap,
          assigned, sends, sent_to,
          read, drained, delivered, last_ret, last_sc, tick, exit, cancelled,
          session, lib>>

IdleFrame == [op |-> "none", phase |-> "idle", req |-> 0, channel |-> "",
              message_id |-> 0, start_time |-> 0, timeout |-> 0]
\* failed_at: which call of on_message in this tick was the first to fail
\* logged: the exception the except clause of line 69 or 76 is logging
NoTick == [step_failed |-> FALSE, failed_at |-> 0, drain_done |-> FALSE,
           drained |-> 0, called |-> 0, ping_checked |-> FALSE,
           logged |-> "none"]
\* asked, waited: the argument and the duration of the time.sleep of line 37
NoExit == [from |-> "none", phase |-> "idle", exc |-> "none",
           asked |-> 0, waited |-> 0]
\* first_tick: the while loop of start is in its first iteration or before it;
\* first_id: the first message id assigned during that iteration (0: none);
\* kept: how many events the buffer held when rtm_connect succeeded, until
\* the end of that iteration
NoSession == [connected |-> FALSE, auth_called |-> FALSE,
              authenticated |-> FALSE, hooked |-> FALSE,
              first_tick |-> TRUE, first_id |-> 0, kept |-> 0]
NoLib == [fn |-> "none"]
\* elapsed: the time since the send at the last evaluation of the while condition
NoCall == [id |-> 0, outcome |-> "none", value |-> 0, seen |-> <<>>,
           timeout |-> 0, elapsed |-> 0]
\* kept: how many of the events a drain returned had been left by a peek
NoRet == [op |-> "none", result |-> <<>>, kept |-> 0]

\* the state after SlackBot.__init__ (lines 20-23), start_loop not yet called
Constructed ==
    /\ pc = "connect"
    /\ pending = <<>>
    /\ last_ping = Now
    /\ bot_user_id = "None"
    /\ max_message_id = FirstMessageId
    /\ unprocessed_messages = <<>>
    /\ last_say_time = Past(Now, RateLimit, RateLimit)
    /\ frame = IdleFrame
    /\ last_send = Past(Now, RateLimit, RateLimit)
    /\ last_gap = RateLimit
    /\ assigned = <<>>
    /\ sends = <<>>
    /\ sent_to = "none"
    /\ read = 0
    /\ drained = <<>>
    /\ delivered = <<>>
    /\ last_ret = NoRet
    /\ last_sc = NoCall
    /\ tick = NoTick
    /\ exit = NoExit
    /\ cancelled = FALSE
    /\ session = NoSession

\* the transport delivers up to MaxEvents events, replies among them, and
\* on_step is the hook that sends
Init ==
    /\ Constructed
    /\ env = [events |-> MaxEvents, replies |-> TRUE, says |-> MaxSays,
              hooks |-> {"in_step"}]
    /\ lib = NoLib

\* ------------------------------------------------- exception propagation
\* The exceptions are named after the statement that raises them:
\* ConnectionError (line 57), AuthenticationError (the assert of line 62),
\* InvalidChannel, InvalidText, InvalidTimeout (the asserts of lines 89, 90,
\* 117), SendRejected (the ValueError of line 125), ProtocolError (the assert
\* of line 126), Timeout (the TimeoutError of line 131), TransportError (an
\* exception of rtm_read, send_to_websocket or ping), HookError (an exception
\* of the hook's own code).  All are subclasses of Exception;
\* KeyboardInterrupt is not.
Exceptions == {"ConnectionError", "AuthenticationError", "InvalidChannel",
               "InvalidText", "InvalidTimeout", "SendRejected",
               "ProtocolError", "Timeout", "TransportError", "HookError"}

\* except clauses of start (lines 68-70 and 74-77) and start_loop (32-37)
StepCatches_None(exc) == FALSE

StepCatches(exc) == exc \in Exceptions

MessageCatches_None(exc) == FALSE

MessageCatches(exc) == exc # "KeyboardInterrupt" /\ exc \in Exceptions

StartLoopNext_Retry(exc) == "backoff"

StartLoopNext_Stop(exc) == "Terminated"

StartLoopNext_Reenter(exc) ==
    IF exc = "KeyboardInterrupt" THEN "Terminated" ELSE "step"

StartLoopNext(exc) ==
    IF exc = "KeyboardInterrupt" THEN "Terminated" ELSE "backoff"

InHook == pc \in {"in_step", "in_message"}

\* an exception raised at the current position unwinds to the nearest
\* handler that catches it
Raise(exc) ==
    /\ frame' = IdleFrame
    /\ cancelled' = (cancelled \/ exc = "KeyboardInterrupt")
    /\ IF pc = "in_step" /\ StepCatches(exc)
       THEN /\ pc' = "step_failed"
            /\ pending' = pending
            /\ tick' = [tick EXCEPT !.step_failed = TRUE, !.logged = exc]
            /\ exit' = exit
       ELSE IF pc = "in_message" /\ MessageCatches(exc)
       THEN /\ pc' = "message_failed"
            /\ pending' = Tail(pending)
            /\ tick' = [tick EXCEPT !.failed_at = IF @ = 0 THEN tick.called ELSE @,
                                     !.logged = exc]
            /\ exit' = exit
       ELSE /\ pc' = IF pc = "backoff" THEN "Terminated" ELSE StartLoopNext(exc)
            /\ pending' = <<>>
            /\ tick' = [tick EXCEPT !.logged = "none"]
            /\ exit' = [from |-> pc, phase |-> frame.phase, exc |-> exc,
                         asked |-> 0, waited |-> 0]

botUnch == UNCHANGED <<bot_user_id, max_message_id, unprocessed_messages>>
timeUnch == UNCHANGED <<last_ping, last_say_time, last_send>>
histUnch == UNCHANGED <<last_gap, assigned, sends, sent_to, read, drained, delivered,
                        last_ret, last_sc>>

\* d seconds pass while no say call is in progress
Elapse(d) ==
    /\ last_ping' = Past(last_ping, d, PingInterval + 1)
    /\ last_say_time' = Past(last_say_time, d, RateLimit)
    /\ last_send' = Past(last_send, d, RateLimit)

\* ------------------------------------------------------- start_loop, start
\* line 57: rtm_connect
Connect ==
    /\ UNCHANGED <<env, lib>>
    /\ pc = "connect"
    /\ \E r \in {"ok", "refused"} :
          IF r = "ok"
          THEN /\ pc' = "auth"
               /\ exit' = NoExit
               /\ session' = [NoSession EXCEPT !.connected = TRUE,
                                  !.kept = Len(unprocessed_messages)]
               /\ UNCHANGED <<pending, tick, frame, cancelled>>
          ELSE /\ Raise("ConnectionError")
               /\ session' = NoSession
    /\ botUnch /\ histUnch /\ timeUnch

AssertOk_Unchecked(authentication) == TRUE

\* line 62: assert authentication["ok"]
AssertOk(authentication) == authentication.ok

\* lines 61-65: auth.test, bot_user_id, last_ping
Authenticate ==
    /\ UNCHANGED <<env, lib>>
    /\ pc = "auth"
    /\ \E authentication \in {[ok |-> TRUE, user_id |-> "UBOT"],
                               [ok |-> FALSE, user_id |-> "None"]} :
          IF AssertOk(authentication)
          THEN /\ pc' = "step"
               /\ bot_user_id' = authentication.user_id
               /\ last_ping' = Now
               /\ session' = [session EXCEPT !.auth_called = TRUE,
                                             !.authenticated = authentication.ok]
               /\ UNCHANGED <<pending, tick, exit, frame, cancelled>>
          ELSE /\ Raise("AuthenticationError")
               /\ session' = [session EXCEPT !.auth_called = TRUE]
               /\ UNCHANGED <<bot_user_id, last_ping>>
    /\ histUnch
    /\ UNCHANGED <<max_message_id, unprocessed_messages, last_say_time, last_send>>

\* line 37: time.sleep(5), then the while loop calls start again
BackoffSleep ==
    /\ UNCHANGED <<env, lib, session>>
    /\ pc = "backoff"
    /\ \E over \in Oversleeps :
          /\ Elapse(Backoff + over)
          /\ exit' = [exit EXCEPT !.asked = Backoff, !.waited = Backoff + over]
    /\ pc' = "connect"
    /\ botUnch /\ histUnch
    /\ UNCHANGED <<pending, frame, tick, cancelled>>

\* line 68: self.on_step() is called
CallOnStep ==
    /\ UNCHANGED <<env, lib>>
    /\ pc = "step"
    /\ pc' = "in_step"
    /\ session' = [session EXCEPT !.hooked = TRUE]
    /\ tick' = NoTick
    /\ last_ret' = NoRet
    /\ last_sc' = NoCall
    /\ botUnch /\ timeUnch
    /\ UNCHANGED <<pending, frame, exit, cancelled, last_gap, assigned, sends, sent_to,
                   read, drained, delivered>>

\* lines 70 and 77: the except clause logs the hook's failure and the loop
\* goes on
LogFailure ==
    /\ UNCHANGED <<env, lib, session>>
    /\ pc \in {"step_failed", "message_failed"}
    /\ pc' = IF pc = "step_failed" THEN "drain" ELSE "dispatch"
    /\ tick' = [tick EXCEPT !.logged = "none"]
    /\ botUnch /\ histUnch /\ timeUnch
    /\ UNCHANGED <<pending, frame, exit, cancelled>>

\* ------------------------------------------------------ the event buffer
get_unprocessed_messages_NoClear(buffer, new) ==
    [result |-> buffer \o new, buffer |-> buffer]

get_unprocessed_messages_NewOnly(buffer, new) ==
    [result |-> new, buffer |-> <<>>]

\* lines 40-43
get_unprocessed_messages(buffer, new) ==
    [result |-> buffer \o new, buffer |-> <<>>]

\* lines 45-47
peek_unprocessed_messages(buffer, new) ==
    [result |-> buffer \o new, buffer |-> buffer \o new]

peek_new_messages_NoExtend(buffer, new) ==
    [result |-> new, buffer |-> buffer]

\* lines 49-52
peek_new_messages(buffer, new) ==
    [result |-> new, buffer |-> buffer \o new]

\* the batches rtm_read may return now: messages, and replies to the
\* message ids handed to the transport so far
Batches == {MakeBatch(s, read) :
               s \in ShapeBatches(IF env.replies
                                  THEN {sends[i] : i \in 1 .. Len(sends)}
                                  ELSE {},
                                  Max(0, env.events - read))}

\* line 73: the for loop evaluates get_unprocessed_messages()
Drain ==
    /\ UNCHANGED <<env, lib, session>>
    /\ pc = "drain"
    /\ \/ \E new \in Batches :
             LET r == get_unprocessed_messages(unprocessed_messages, new) IN
             /\ unprocessed_messages' = r.buffer
             /\ pending' = r.result
             /\ read' = read + Len(new)
             /\ drained' = drained \o Ids(r.result)
             /\ last_ret' = [op |-> "drain", result |-> Ids(r.result),
                              kept |-> Len(unprocessed_messages)]
             /\ tick' = [tick EXCEPT !.drain_done = TRUE, !.drained = Len(r.result)]
             /\ pc' = "dispatch"
             /\ UNCHANGED <<frame, exit, cancelled>>
       \/ /\ Raise("TransportError")
          /\ UNCHANGED <<unprocessed_messages, read, drained, last_ret>>
    /\ timeUnch
    /\ UNCHANGED <<bot_user_id, max_message_id, last_gap, assigned, sends, sent_to,
                   delivered, last_sc>>

\* line 74: self.on_message(message) is called for the next message
CallOnMessage ==
    /\ UNCHANGED <<env, lib, session>>
    /\ pc = "dispatch"
    /\ pending # <<>>
    /\ pc' = "in_message"
    /\ delivered' = Append(delivered, Head(pending).n)
    /\ tick' = [tick EXCEPT !.called = @ + 1]
    /\ botUnch /\ timeUnch
    /\ UNCHANGED <<pending, frame, last_gap, assigned, sends, sent_to, read,
                   drained, last_ret, last_sc, exit, cancelled>>

\* the for loop is exhausted
DispatchDone ==
    /\ UNCHANGED <<env, lib, session>>
    /\ pc = "dispatch"
    /\ pending = <<>>
    /\ pc' = "ping"
    /\ botUnch /\ histUnch /\ timeUnch
    /\ UNCHANGED <<pending, frame, tick, exit, cancelled>>

\* lines 80-82
Ping ==
    /\ UNCHANGED <<env, lib, session>>
    /\ pc = "ping"
    /\ IF Now - last_ping > PingInterval
       THEN \/ /\ last_ping' = Now
               /\ pc' = "tick_sleep"
               /\ tick' = [tick EXCEPT !.ping_checked = TRUE]
               /\ UNCHANGED <<pending, frame, exit, cancelled>>
            \/ /\ Raise("TransportError")
               /\ UNCHANGED last_ping
       ELSE /\ pc' = "tick_sleep"
            /\ tick' = [tick EXCEPT !.ping_checked = TRUE]
            /\ UNCHANGED <<last_ping, pending, frame, exit, cancelled>>
    /\ botUnch /\ histUnch
    /\ UNCHANGED <<last_say_time, last_send>>

\* line 85
TickSleep ==
    /\ UNCHANGED <<env, lib>>
    /\ pc = "tick_sleep"
    /\ session' = [session EXCEPT !.first_tick = FALSE, !.first_id = 0,
                                  !.kept = 0]
    /\ \E over \in Oversleeps : Elapse(Slice + over)
    /\ pc' = "step"
    /\ botUnch /\ histUnch
    /\ UNCHANGED <<pending, frame, tick, exit, cancelled>>

\* ------------------------------------------------------------------- say
rate_limit_Ahead(current_time, last) ==
    IF current_time - last < RateLimit
    THEN [wait |-> TRUE, sleep |-> Max(0, RateLimit - (current_time - last)),
          last |-> last + RateLimit + RateLimit]
    ELSE [wait |-> FALSE, sleep |-> 0, last |-> current_time]

\* lines 93-98: the wait before a send and the new last_say_time
rate_limit(current_time, last) ==
    IF current_time - last < RateLimit
    THEN [wait |-> TRUE, sleep |-> Max(0, RateLimit - (current_time - last)),
          last |-> last + RateLimit]
    ELSE [wait |-> FALSE, sleep |-> 0, last |-> current_time]

NextMessageId_Same(id) == id

\* line 106
NextMessageId(id) == id + 1

\* lines 105-113, and lines 118-120 when say_complete called say; prev is
\* the time of the previous handoff
Handoff(op, channel_id, timeout, prev) ==
    LET message_id == max_message_id IN
    /\ max_message_id' = NextMessageId(max_message_id)
    /\ assigned' = Append(assigned, message_id)
    /\ session' = [session EXCEPT !.first_id = IF session.first_tick /\ @ = 0
                                               THEN message_id ELSE @]
    /\ \/ /\ sends' = Append(sends, message_id)
          /\ sent_to' = channel_id
          /\ last_send' = Now
          /\ last_gap' = Now - prev
          /\ IF op = "say"
             THEN /\ frame' = IdleFrame
                  /\ last_sc' = last_sc
             ELSE /\ frame' = [IdleFrame EXCEPT !.op = op, !.phase = "poll",
                                                !.message_id = message_id,
                                                !.start_time = Now,
                                                !.timeout = timeout]
                  /\ last_sc' = [id |-> message_id, outcome |-> "pending",
                                 value |-> 0, seen |-> <<>>,
                                 timeout |-> timeout, elapsed |-> 0]
          /\ UNCHANGED <<pc, pending, tick, exit, cancelled>>
       \/ /\ Raise("TransportError")
          /\ last_send' = prev
          /\ UNCHANGED <<sends, sent_to, last_gap, last_sc>>

\* lines 154-159 and 177-182: the name of the first entry with this id
NameById(entries, id) ==
    IF \E i \in 1 .. Len(entries) : entries[i].id = id
    THEN Some(entries[CHOOSE i \in 1 .. Len(entries) :
                         /\ entries[i].id = id
                         /\ \A j \in 1 .. (i - 1) : entries[j].id # id].name)
    ELSE None

\* lines 154-159 over the snapshot of channels the transport exposes
get_channel_name_by_id(channel_id) == NameById(Channels, channel_id)

Precondition_ChannelUnchecked(op, channel_id, is_str, timeout) ==
    IF op = "say_complete" /\ ~(timeout > 0) THEN "InvalidTimeout"
    ELSE IF ~is_str THEN "InvalidText"
    ELSE "ok"

Precondition_TimeoutUnchecked(op, channel_id, is_str, timeout) ==
    IF get_channel_name_by_id(channel_id).none THEN "InvalidChannel"
    ELSE IF ~is_str THEN "InvalidText"
    ELSE "ok"

\* the asserts of line 117 (say_complete only), then of lines 89 and 90, in
\* the order the code evaluates them
Precondition(op, channel_id, is_str, timeout) ==
    IF op = "say_complete" /\ ~(timeout > 0) THEN "InvalidTimeout"
    ELSE IF get_channel_name_by_id(channel_id).none THEN "InvalidChannel"
    ELSE IF ~is_str THEN "InvalidText"
    ELSE "ok"

\* a hook calls say (lines 87-98) or say_complete (lines 115-118)
SayBegin ==
    /\ UNCHANGED <<env, lib>>
    /\ pc \in env.hooks
    /\ frame.op = "none"
    /\ Len(assigned) < env.says
    /\ \E op \in {"say", "say_complete"}, ch \in ChannelIds,
          is_str \in BOOLEAN, timeout \in Timeouts :
          /\ op = "say" => timeout = 0
          /\ IF Precondition(op, ch, is_str, timeout) # "ok"
             THEN /\ Raise(Precondition(op, ch, is_str, timeout))
                  /\ UNCHANGED <<max_message_id, last_say_time, last_send,
                                 last_gap, assigned, sends, sent_to, last_sc, session>>
             ELSE LET r == rate_limit(Now, last_say_time) IN
                  IF r.wait
                  THEN /\ frame' = [IdleFrame EXCEPT !.op = op,
                                       !.phase = "rate_sleep", !.req = r.sleep,
                                       !.channel = ch, !.timeout = timeout]
                       /\ UNCHANGED <<pc, pending, tick, exit, cancelled,
                                      max_message_id, last_say_time, last_send,
                                      last_gap, assigned, sends, sent_to, last_sc,
                                      session>>
                  ELSE /\ last_say_time' = r.last
                       /\ Handoff(op, ch, timeout, last_send)
    /\ UNCHANGED <<last_ping, bot_user_id, unprocessed_messages, read,
                   drained, delivered, last_ret>>

\* lines 95-96 and then 105-113: the sleep ends, last_say_time += 1, send
SayWake ==
    /\ UNCHANGED <<env, lib>>
    /\ frame.phase = "rate_sleep"
    /\ \E over \in Oversleeps :
          LET d == frame.req + over IN
          /\ last_ping' = Past(last_ping, d, PingInterval + 1)
          /\ last_say_time' = Past(rate_limit(Now, last_say_time).last, d, RateLimit)
          /\ Handoff(frame.op, frame.channel, frame.timeout,
                     Past(last_send, d, RateLimit))
    /\ UNCHANGED <<bot_user_id, unprocessed_messages, read, drained,
                   delivered, last_ret>>

\* ---------------------------------------------------------- say_complete
Matches_AnyReply(message, message_id) == message.ok # "absent"

\* line 124: the event is a reply for the sent message
Matches(message, message_id) ==
    message.ok # "absent" /\ message.reply_to = message_id

\* lines 123-128: the for loop over one batch stops at the first reply for
\* the sent message (0: no such reply, the else clause sleeps)
FirstMatch(batch, message_id) ==
    IF \E i \in 1 .. Len(batch) : Matches(batch[i], message_id)
    THEN CHOOSE i \in 1 .. Len(batch) :
            /\ Matches(batch[i], message_id)
            /\ \A j \in 1 .. (i - 1) : ~Matches(batch[j], message_id)
    ELSE 0

ReplyOutcome_NoReject(message) ==
    IF message.ts = 0 THEN "ProtocolError" ELSE "returned"

ReplyOutcome_TsUnchecked(message) ==
    IF message.ok = "false" THEN "SendRejected" ELSE "returned"

\* lines 125-127: what the reply makes say_complete do
ReplyOutcome(message) ==
    IF message.ok = "false" THEN "SendRejected"
    ELSE IF message.ts = 0 THEN "ProtocolError"
    ELSE "returned"

WithinTimeout_Early(t, start_time, timeout) == t - start_time < timeout - 1

WithinTimeout_Always(t, start_time, timeout) == TRUE

\* line 121: the polling goes on
WithinTimeout(t, start_time, timeout) == t - start_time < timeout

Finish(outcome, value, seen) ==
    last_sc' = [last_sc EXCEPT !.outcome = outcome, !.value = value,
                               !.seen = seen,
                               !.elapsed = Now - frame.start_time]

\* lines 121-131: one evaluation of the while condition and one poll
SayCompletePoll ==
    /\ UNCHANGED <<env, lib, session>>
    /\ frame.phase = "poll"
    /\ IF WithinTimeout(Now, frame.start_time, frame.timeout)
       THEN \/ \E new \in Batches :
                  LET r == peek_new_messages(unprocessed_messages, new)
                      m == FirstMatch(r.result, frame.message_id)
                      seen == last_sc.seen \o r.result
                  IN
                  /\ unprocessed_messages' = r.buffer
                  /\ read' = read + Len(new)
                  /\ last_ret' = [op |-> "peek_new", result |-> Ids(r.result),
                                   kept |-> 0]
                  /\ IF m = 0
                     THEN /\ frame' = [frame EXCEPT !.phase = "poll_sleep"]
                          /\ Finish("pending", 0, seen)
                          /\ UNCHANGED <<pc, pending, tick, exit, cancelled>>
                     ELSE IF ReplyOutcome(r.result[m]) = "returned"
                     THEN /\ frame' = IdleFrame
                          /\ Finish("returned", r.result[m].ts, seen)
                          /\ UNCHANGED <<pc, pending, tick, exit, cancelled>>
                     ELSE /\ Raise(ReplyOutcome(r.result[m]))
                          /\ Finish(ReplyOutcome(r.result[m]), 0, seen)
            \/ /\ Raise("TransportError")
               /\ Finish("TransportError", 0, last_sc.seen)
               /\ UNCHANGED <<unprocessed_messages, read, last_ret>>
       ELSE /\ Raise("Timeout")
            /\ Finish("Timeout", 0, last_sc.seen)
            /\ UNCHANGED <<unprocessed_messages, read, last_ret>>
    /\ timeUnch
    /\ UNCHANGED <<bot_user_id, max_message_id, last_gap, assigned, sends, sent_to,
                   drained, delivered>>

\* line 130
SayCompleteSleep ==
    /\ UNCHANGED <<env, lib, session>>
    /\ frame.phase = "poll_sleep"
    /\ \E over \in Oversleeps :
          /\ Elapse(Slice + over)
          /\ frame' = [frame EXCEPT !.phase = "poll",
                           !.start_time = Past(@, Slice + over, frame.timeout)]
    /\ botUnch /\ histUnch
    /\ UNCHANGED <<pc, pending, tick, exit, cancelled>>

\* ------------------------------------------------------------- the hooks
\* a hook calls peek_unprocessed_messages or peek_new_messages
HookPeek ==
    /\ UNCHANGED <<env, lib, session>>
    /\ InHook
    /\ frame.op = "none"
    /\ \/ \E op \in {"peek_unprocessed", "peek_new"}, new \in Batches :
             LET r == IF op = "peek_new"
                      THEN peek_new_messages(unprocessed_messages, new)
                      ELSE peek_unprocessed_messages(unprocessed_messages, new)
             IN
             /\ unprocessed_messages' = r.buffer
             /\ read' = read + Len(new)
             /\ last_ret' = [op |-> op, result |-> Ids(r.result), kept |-> 0]
             /\ UNCHANGED <<pc, pending, tick, exit, frame, cancelled>>
       \/ /\ Raise("TransportError")
          /\ UNCHANGED <<unprocessed_messages, read, last_ret>>
    /\ timeUnch
    /\ UNCHANGED <<bot_user_id, max_message_id, last_gap, assigned, sends, sent_to,
                   drained, delivered, last_sc>>

\* the hook returns
HookReturn ==
    /\ UNCHANGED <<env, lib, session>>
    /\ InHook
    /\ frame.op = "none"
    /\ IF pc = "in_step"
       THEN pc' = "drain" /\ pending' = pending
       ELSE pc' = "dispatch" /\ pending' = Tail(pending)
    /\ botUnch /\ histUnch /\ timeUnch
    /\ UNCHANGED <<frame, tick, exit, cancelled>>

\* the hook fails with an exception of its own
HookRaise ==
    /\ UNCHANGED <<env, lib, session>>
    /\ InHook
    /\ frame.op = "none"
    /\ Raise("HookError")
    /\ botUnch /\ histUnch /\ timeUnch

\* the user interrupts the process, wherever the control thread is
KeyboardInterrupt ==
    /\ UNCHANGED <<env, lib, session>>
    /\ pc # "Terminated"
    /\ Raise("KeyboardInterrupt")
    /\ last_sc' = IF last_sc.outcome = "pending"
                  THEN [last_sc EXCEPT !.outcome = "Cancelled"]
                  ELSE last_sc
    /\ botUnch /\ timeUnch
    /\ UNCHANGED <<last_gap, assigned, sends, sent_to, read, drained, delivered,
                   last_ret>>

Next ==
    \/ Connect
    \/ Authenticate
    \/ BackoffSleep
    \/ CallOnStep
    \/ LogFailure
    \/ Drain
    \/ CallOnMessage
    \/ DispatchDone
    \/ Ping
    \/ TickSleep
    \/ SayBegin
    \/ SayWake
    \/ SayCompletePoll
    \/ SayCompleteSleep
    \/ HookPeek
    \/ HookReturn
    \/ HookRaise
    \/ KeyboardInterrupt

Spec == Init /\ [][Next]_vars

\* the transport delivers no event: the sender on its own, with one more
\* call of say than in the runs with events
InitQuiet ==
    /\ Constructed
    /\ env = [events |-> 0, replies |-> FALSE, says |-> MaxSays + 1,
              hooks |-> {"in_step", "in_message"}]
    /\ lib = NoLib

\* with no event the for loop of start never calls on_message
NextSender ==
    \/ Connect
    \/ Authenticate
    \/ BackoffSleep
    \/ CallOnStep
    \/ LogFailure
    \/ Drain
    \/ DispatchDone
    \/ Ping
    \/ TickSleep
    \/ SayBegin
    \/ SayWake
    \/ SayCompletePoll
    \/ SayCompleteSleep
    \/ HookPeek
    \/ HookReturn
    \/ HookRaise
    \/ KeyboardInterrupt

SpecSender == InitQuiet /\ [][NextSender]_vars

\* the transport delivers messages and no replies
InitMessages ==
    /\ Constructed
    /\ env = [events |-> MaxEvents, replies |-> FALSE, says |-> MaxSays,
              hooks |-> {"in_step", "in_message"}]
    /\ lib = NoLib

SpecLoop == InitMessages /\ [][Next]_vars

\* the correlator: the behaviours in which no hook fails on its own and the
\* user does not interrupt
NextCorrelate ==
    \/ Connect
    \/ Authenticate
    \/ BackoffSleep
    \/ CallOnStep
    \/ LogFailure
    \/ Drain
    \/ CallOnMessage
    \/ DispatchDone
    \/ Ping
    \/ TickSleep
    \/ SayBegin
    \/ SayWake
    \/ SayCompletePoll
    \/ SayCompleteSleep
    \/ HookReturn

SpecCorrelate == Init /\ [][NextCorrelate]_vars

\* line 130 over and over: the slices of time.sleep(0.01) add up, so among
\* the sleeps of a polling loop that goes on some last a second
SleepAdvances ==
    /\ SayCompleteSleep
    /\ frame'.start_time < frame.start_time

\* the correlator while the thread runs and time advances: a sleep ends, the
\* statement after it is executed
\* as Init, the transport delivering one event fewer
InitFewEvents ==
    /\ Constructed
    /\ env = [events |-> MaxEvents - 1, replies |-> TRUE, says |-> MaxSays,
              hooks |-> {"in_step"}]
    /\ lib = NoLib

SpecTerminate ==
    /\ InitFewEvents
    /\ [][NextCorrelate]_vars
    /\ WF_vars(SayWake)
    /\ WF_vars(SayCompletePoll)
    /\ SF_vars(SleepAdvances)

\* ================================================= the library functions
\* A text is a sequence of characters.

\* every variable of the bot: a library call leaves them alone
botVars == <<env, pc, pending, last_ping, bot_user_id, max_message_id,
             unprocessed_messages, last_say_time, frame, last_send, last_gap,
             assigned, sends, sent_to, read, drained, delivered, last_ret, last_sc,
             tick, exit, cancelled, session>>

startswith(s, prefix) ==
    Len(s) >= Len(prefix) /\ SubSeq(s, 1, Len(prefix)) = prefix

Drop(s, k) == SubSeq(s, k + 1, Len(s))

\* the position of the first character of s that is in `chars` (0: none)
Find(s, chars) ==
    IF \E i \in 1 .. Len(s) : s[i] \in chars
    THEN CHOOSE i \in 1 .. Len(s) :
            s[i] \in chars /\ \A j \in 1 .. (i - 1) : s[j] \notin chars
    ELSE 0

\* str.replace(old, new): the occurrences of old from left to right, not
\* overlapping
RECURSIVE replace(_, _, _)
replace(s, old, new) ==
    IF s = <<>> THEN <<>>
    ELSE IF startswith(s, old)
    THEN new \o replace(Drop(s, Len(old)), old, new)
    ELSE <<Head(s)>> \o replace(Tail(s), old, new)

\* lines 226-229
text_to_sendable_text(text) ==
    replace(replace(replace(text, <<"&">>, <<"&", "a", "m", "p", ";">>),
                    <<"<">>, <<"&", "l", "t", ";">>),
            <<">">>, <<"&", "g", "t", ";">>)

\* lines 214 and 234: re.sub(r"<[^<>]*>", "", text)
RECURSIVE StripSpecialSequences(_)
StripSpecialSequences(s) ==
    IF s = <<>> THEN <<>>
    ELSE IF Head(s) = "<"
    THEN LET k == Find(Tail(s), {"<", ">"}) IN
         IF k # 0 /\ Tail(s)[k] = ">"
         THEN StripSpecialSequences(Drop(s, k + 1))
         ELSE <<"<">> \o StripSpecialSequences(Tail(s))
    ELSE <<Head(s)>> \o StripSpecialSequences(Tail(s))

WellFormed_OpenOnly(s) ==
    LET text_without_special_sequences == StripSpecialSequences(s) IN
    \A i \in 1 .. Len(text_without_special_sequences) :
        text_without_special_sequences[i] # "<"

\* lines 215 and 235: the assert on the stripped text
WellFormed(s) ==
    LET text_without_special_sequences == StripSpecialSequences(s) IN
    \A i \in 1 .. Len(text_without_special_sequences) :
        text_without_special_sequences[i] \notin {"<", ">"}

\* str.split("|")[0]
BeforeBar(body) ==
    LET k == Find(body, {"|"}) IN
    IF k = 0 THEN body ELSE SubSeq(body, 1, k - 1)

\* lines 238-252: process_special_sequence of sendable_text_to_text
process_special_sequence(original, channels, users) ==
    LET body == BeforeBar(SubSeq(original, 2, Len(original) - 1)) IN
    IF startswith(body, <<"#", "C">>)
    THEN LET channel_name == NameById(channels, Tail(body)) IN
         IF channel_name.none THEN <<>> ELSE <<"#">> \o channel_name.value
    ELSE IF startswith(body, <<"@", "U">>)
    THEN LET user_name == NameById(users, Tail(body)) IN
         IF user_name.none THEN <<>> ELSE <<"@">> \o user_name.value
    ELSE IF body = <<"!", "c", "h", "a", "n", "n", "e", "l">>
    THEN <<"@", "c", "h", "a", "n", "n", "e", "l">>
    ELSE IF body = <<"!", "g", "r", "o", "u", "p">>
    THEN <<"@", "g", "r", "o", "u", "p">>
    ELSE IF body = <<"!", "e", "v", "e", "r", "y", "o", "n", "e">>
    THEN <<"@", "e", "v", "e", "r", "y", "o", "n", "e">>
    ELSE original

\* line 253: re.sub(r"<(.*?)>", process_special_sequence, sendable_text)
RECURSIVE SubSpecialSequences(_, _, _)
SubSpecialSequences(s, channels, users) ==
    IF s = <<>> THEN <<>>
    ELSE IF Head(s) = "<"
    THEN LET k == Find(Tail(s), {">"}) IN
         IF k # 0
         THEN process_special_sequence(SubSeq(s, 1, k + 1), channels, users)
                 \o SubSpecialSequences(Drop(s, k + 1), channels, users)
         ELSE <<"<">> \o SubSpecialSequences(Tail(s), channels, users)
    ELSE <<Head(s)>> \o SubSpecialSequences(Tail(s), channels, users)

Unescape_AmpFirst(raw_text) ==
    replace(replace(replace(raw_text, <<"&", "a", "m", "p", ";">>, <<"&">>),
                    <<"&", "l", "t", ";">>, <<"<">>),
            <<"&", "g", "t", ";">>, <<">">>)

\* line 255
Unescape(raw_text) ==
    replace(replace(replace(raw_text, <<"&", "l", "t", ";">>, <<"<">>),
                    <<"&", "g", "t", ";">>, <<">">>),
            <<"&", "a", "m", "p", ";">>, <<"&">>)

\* lines 231-255
sendable_text_to_text(sendable_text, channels, users) ==
    IF ~WellFormed(sendable_text)
    THEN [error |-> "FormatError", text |-> <<>>]
    ELSE [error |-> "none",
          text |-> Unescape(SubSpecialSequences(sendable_text, channels, users))]

\* --------------------------------------------------- the codec round trip
MaxPieces == 3

\* the plain texts: up to MaxPieces pieces, each a markup character, a
\* semicolon, the rest of an entity name or a letter
Pieces == {<<"&">>, <<"<">>, <<">">>, <<";">>, <<"a">>,
           <<"a", "m", "p", ";">>, <<"l", "t", ";">>, <<"g", "t", ";">>}

RECURSIVE Texts(_)
Texts(k) ==
    IF k = 0 THEN {<<>>}
    ELSE LET shorter == Texts(k - 1) IN
         shorter \cup {t \o q : t \in shorter, q \in Pieces}

\* the snapshot of channels and users the transport exposes
DirectoryChannels == <<[id |-> <<"C", "1">>, name |-> <<"a">>]>>
DirectoryUsers == <<[id |-> <<"U", "1">>, name |-> <<"m">>, real_name |-> <<"p">>]>>

InitCodec ==
    /\ Constructed
    /\ env = [events |-> 0, replies |-> FALSE, says |-> 0, hooks |-> {}]
    /\ lib \in {[fn |-> "codec", stage |-> "plain", plain |-> x, text |-> x,
                 error |-> "none"] : x \in Texts(MaxPieces)}

\* text_to_sendable_text is applied to the plain text
Escape ==
    /\ lib.fn = "codec"
    /\ lib.stage = "plain"
    /\ lib' = [lib EXCEPT !.stage = "sendable",
                          !.text = text_to_sendable_text(lib.text)]
    /\ UNCHANGED botVars

\* sendable_text_to_text is applied to the result
Decode ==
    /\ lib.fn = "codec"
    /\ lib.stage = "sendable"
    /\ LET r == sendable_text_to_text(lib.text, DirectoryChannels, DirectoryUsers) IN
       lib' = [lib EXCEPT !.stage = "back", !.text = r.text, !.error = r.error]
    /\ UNCHANGED botVars

NextCodec ==
    \/ Escape
    \/ Decode

SpecCodec == InitCodec /\ [][NextCodec]_vars

\* ------------------------------------------------- the wire text formats
\* lines 218-223: process_special_sequence of server_text_to_sendable_text
server_process_special_sequence(original) ==
    LET body == BeforeBar(SubSeq(original, 2, Len(original) - 1)) IN
    IF startswith(body, <<"#", "C">>) THEN original
    ELSE IF startswith(body, <<"@", "U">>) THEN original
    ELSE IF startswith(body, <<"!">>) THEN original
    ELSE body

\* line 224: re.sub(r"<(.*?)>", process_special_sequence, server_text)
RECURSIVE SubServerSequences(_)
SubServerSequences(s) ==
    IF s = <<>> THEN <<>>
    ELSE IF Head(s) = "<"
    THEN LET k == Find(Tail(s), {">"}) IN
         IF k # 0
         THEN server_process_special_sequence(SubSeq(s, 1, k + 1))
                 \o SubServerSequences(Drop(s, k + 1))
         ELSE <<"<">> \o SubServerSequences(Tail(s))
    ELSE <<Head(s)>> \o SubServerSequences(Tail(s))

\* lines 211-224
server_text_to_sendable_text(server_text) ==
    IF ~WellFormed(server_text)
    THEN [error |-> "FormatError", text |-> <<>>]
    ELSE [error |-> "none", text |-> SubServerSequences(server_text)]

\* the wire texts: up to MaxPieces pieces, each an angle bracket, a bar, a
\* letter, the body of a reference or of a command, or a whole sequence
WirePieces == {<<"<">>, <<">">>, <<"a">>, <<"|">>, <<"#", "C", "1">>,
               <<"@", "U", "1">>, <<"!", "g", "r", "o", "u", "p">>,
               <<"<", "a", ">">>}

RECURSIVE WireTexts(_)
WireTexts(k) ==
    IF k = 0 THEN {<<>>}
    ELSE LET shorter == WireTexts(k - 1) IN
         shorter \cup {t \o q : t \in shorter, q \in WirePieces}

InitWire ==
    /\ Constructed
    /\ env = [events |-> 0, replies |-> FALSE, says |-> 0, hooks |-> {}]
    /\ lib \in {[fn |-> "wire", stage |-> "asked", input |-> x, by |-> "none",
                 error |-> "none", text |-> <<>>] : x \in WireTexts(MaxPieces)}

\* sendable_text_to_text is applied to the wire text
DecodeWire ==
    /\ lib.fn = "wire"
    /\ lib.stage = "asked"
    /\ LET r == sendable_text_to_text(lib.input, DirectoryChannels, DirectoryUsers) IN
       lib' = [lib EXCEPT !.stage = "done", !.by = "sendable_text_to_text",
                          !.error = r.error, !.text = r.text]
    /\ UNCHANGED botVars

\* server_text_to_sendable_text is applied to the wire text
ConvertServer ==
    /\ lib.fn = "wire"
    /\ lib.stage = "asked"
    /\ LET r == server_text_to_sendable_text(lib.input) IN
       lib' = [lib EXCEPT !.stage = "done", !.by = "server_text_to_sendable_text",
                          !.error = r.error, !.text = r.text]
    /\ UNCHANGED botVars

NextWire ==
    \/ DecodeWire
    \/ ConvertServer

SpecWire == InitWire /\ [][NextWire]_vars

\* ------------------------------------------------------ the name lookups
MaxEntries == 2

\* the characters \w matches, among the characters of the model
WordChars == {"C", "U", "1", "9", "a", "_"}
Whitespace == {" "}

\* str.lstrip(chars)
RECURSIVE lstrip(_, _)
lstrip(s, chars) ==
    IF s # <<>> /\ Head(s) \in chars THEN lstrip(Tail(s), chars) ELSE s

RECURSIVE rstrip(_, _)
rstrip(s, chars) ==
    IF s # <<>> /\ s[Len(s)] \in chars
    THEN rstrip(SubSeq(s, 1, Len(s) - 1), chars)
    ELSE s

\* str.strip()
strip(s) == rstrip(lstrip(s, Whitespace), Whitespace)

\* lines 168 and 191: re.match(r"<S(\w+)(?:\|[^>]+)?>$", name) for the sigil S,
\* the value of group 1 or None.  \w+ takes the longest run of word
\* characters (a shorter one would be followed by a word character, which is
\* neither | nor >); the label is not empty and holds no >.
MatchReference(sigil, name) ==
    IF ~startswith(name, <<"<", sigil>>) THEN None
    ELSE LET after == Drop(name, 2)
             stop == Find(after, {c \in {after[i] : i \in 1 .. Len(after)} :
                                     c \notin WordChars})
             id == IF stop = 0 THEN after ELSE SubSeq(after, 1, stop - 1)
             rest == Drop(after, Len(id))
         IN
         IF id = <<>> THEN None
         ELSE IF rest = <<">">> THEN Some(id)
         ELSE IF /\ Len(rest) >= 3
                 /\ Head(rest) = "|"
                 /\ Find(Tail(rest), {">"}) = Len(rest) - 1
         THEN Some(id)
         ELSE None

\* the id of the first entry whose field `key` is `name`
IdByField(entries, key, name) ==
    IF \E i \in 1 .. Len(entries) : entries[i][key] = name
    THEN Some(entries[CHOOSE i \in 1 .. Len(entries) :
                         /\ entries[i][key] = name
                         /\ \A j \in 1 .. (i - 1) : entries[j][key] # name].id)
    ELSE None

get_channel_id_by_name_SearchFirst(channel_name, channels) ==
    LET name == lstrip(strip(channel_name), {"#"})
        found == IdByField(channels, "name", name)
    IN IF ~found.none THEN found ELSE MatchReference("#", name)

\* lines 161-175
get_channel_id_by_name(channel_name, channels) ==
    LET name == lstrip(strip(channel_name), {"#"})
        match == MatchReference("#", name)
    IN IF ~match.none THEN match ELSE IdByField(channels, "name", name)

\* lines 184-202
get_user_id_by_name(user_name, users) ==
    LET name == lstrip(strip(user_name), {"@"})
        match == MatchReference("@", name)
        by_name == IdByField(users, "name", name)
    IN IF ~match.none THEN match
       ELSE IF ~by_name.none THEN by_name
       ELSE IdByField(users, "real_name", name)

\* an inline reference <#ID>, <#ID|label>, <@ID> or <@ID|label>
Reference(sigil, id, label) ==
    <<"<", sigil>> \o id
        \o (IF label = <<>> THEN <<>> ELSE <<"|">> \o label) \o <<">">>

ReferenceIds == {<<"C", "1">>, <<"U", "9">>, <<"1">>, <<"a", "_">>}
\* <<>>: the reference has no label
Labels == {<<>>, <<"a">>, <<"a", "|", "C">>, <<"<", " ">>}

\* the names asked for: the references, and names that are no reference
References ==
    {[kind |-> "reference", sigil |-> g, id |-> id,
      name |-> Reference(g, id, label)] :
        g \in {"#", "@"}, id \in ReferenceIds, label \in Labels}
OtherNames ==
    {[kind |-> "other", sigil |-> "", id |-> <<>>, name |-> n] :
        n \in {<<"a">>, <<" ", "#", "a">>, <<"@", "9">>, <<"<", "#", ">">>,
               <<"<", "#", "C", "1", "|", ">">>, <<"<", "#", "C", "-", "1", ">">>,
               <<"<", "@", "U", "9", ">", "a">>, <<"<", "#", "C", "1">>}}

\* the entries a snapshot may hold, some of them named like a reference
Entries ==
    {[id |-> <<"C", "9">>, name |-> <<"a">>, real_name |-> <<"9">>],
     [id |-> <<"U", "1">>, name |-> <<"<", "#", "C", "1", ">">>,
      real_name |-> <<"<", "@", "U", "9", "|", "a", ">">>],
     [id |-> <<"_">>, name |-> <<"<", "@", "U", "9", ">">>,
      real_name |-> <<"a">>]}

Snapshots == UNION {[1 .. k -> Entries] : k \in 0 .. MaxEntries}

InitLookup ==
    /\ Constructed
    /\ env = [events |-> 0, replies |-> FALSE, says |-> 0, hooks |-> {}]
    /\ lib \in {[fn |-> "lookup", stage |-> "asked", query |-> q,
                 entries |-> d, by |-> "none", result |-> None] :
                    q \in References \cup OtherNames, d \in Snapshots}

\* get_channel_id_by_name(name) over the snapshot
LookupChannel ==
    /\ lib.fn = "lookup"
    /\ lib.stage = "asked"
    /\ lib' = [lib EXCEPT !.stage = "done", !.by = "channel",
                  !.result = get_channel_id_by_name(lib.query.name, lib.entries)]
    /\ UNCHANGED botVars

\* get_user_id_by_name(name) over the snapshot
LookupUser ==
    /\ lib.fn = "lookup"
    /\ lib.stage = "asked"
    /\ lib' = [lib EXCEPT !.stage = "done", !.by = "user",
                  !.result = get_user_id_by_name(lib.query.name, lib.entries)]
    /\ UNCHANGED botVars

NextLookup ==
    \/ LookupChannel
    \/ LookupUser

SpecLookup == InitLookup /\ [][NextLookup]_vars

\* ---------------------------------------------------------- SlackDebugBot
\* A value a call returns or takes: its Python type, and for an int its value.
Float == [type |-> "float", value |-> 0]
Str == [type |-> "str", value |-> 0]
IntOf(k) == [type |-> "int", value |-> k]
NoValue == [type |-> "NoneType", value |-> 0]

\* lines 352-355: the assert of SlackDebugBot.get_channel_name_by_id holds
\* (channel_id[0] of an empty string raises as well)
DebugChannelKnown(channel_id) ==
    channel_id # <<>> /\ Head(channel_id) \in {"C", "D"}

\* lines 137, 147, 337 and 347: assert isinstance(timestamp, str)
ReactAccepts(timestamp) == timestamp.type = "str"

\* line 332: what SlackDebugBot.say_complete returns, time.time()
DebugTimestamp == Float

\* the channel ids, text and emoticon the caller passes
InitDebug ==
    /\ Constructed
    /\ env = [events |-> 0, replies |-> FALSE, says |-> 0, hooks |-> {}]
    /\ lib \in {[fn |-> "debug", channel_id |-> c, text |-> t, emoticon |-> e,
                 max_message_id |-> FirstMessageId, last |-> "none",
                 failed |-> FALSE, returned |-> NoValue, timestamp |-> NoValue] :
                    c \in {<<"C", "g">>, <<"D", "U", "1">>, <<"U", "1">>, <<>>},
                    t \in {Str, NoValue}, e \in {Str, IntOf(1)}}

\* lines 316-327: SlackDebugBot.say
DebugSay ==
    /\ lib.fn = "debug"
    /\ lib.max_message_id <= MaxSays
    /\ IF DebugChannelKnown(lib.channel_id) /\ lib.text.type = "str"
       THEN lib' = [lib EXCEPT !.last = "say", !.failed = FALSE,
                               !.max_message_id = NextMessageId(@),
                               !.returned = IntOf(lib.max_message_id)]
       ELSE lib' = [lib EXCEPT !.last = "say", !.failed = TRUE,
                               !.returned = NoValue]
    /\ UNCHANGED botVars

\* lines 329-332: SlackDebugBot.say_complete
DebugSayComplete ==
    /\ lib.fn = "debug"
    /\ lib.max_message_id <= MaxSays
    /\ IF DebugChannelKnown(lib.channel_id) /\ lib.text.type = "str"
       THEN lib' = [lib EXCEPT !.last = "say_complete", !.failed = FALSE,
                               !.max_message_id = NextMessageId(@),
                               !.returned = DebugTimestamp]
       ELSE lib' = [lib EXCEPT !.last = "say_complete", !.failed = TRUE,
                               !.returned = NoValue]
    /\ UNCHANGED botVars

\* the timestamps the caller has: the one of an inbound event (line 301, a
\* string) and the value the last say_complete returned
DebugTimestamps ==
    {Str} \cup (IF lib.last = "say_complete" /\ ~lib.failed
                THEN {lib.returned} ELSE {})

\* lines 334-341: SlackDebugBot.react
DebugReact ==
    /\ lib.fn = "debug"
    /\ \E timestamp \in DebugTimestamps :
          lib' = [lib EXCEPT !.last = "react", !.timestamp = timestamp,
                             !.returned = NoValue,
                             !.failed = ~(/\ DebugChannelKnown(lib.channel_id)
                                          /\ ReactAccepts(timestamp)
                                          /\ lib.emoticon.type = "str")]
    /\ UNCHANGED botVars

\* lines 343-350: SlackDebugBot.unreact
DebugUnreact ==
    /\ lib.fn = "debug"
    /\ \E timestamp \in DebugTimestamps :
          lib' = [lib EXCEPT !.last = "unreact", !.timestamp = timestamp,
                             !.returned = NoValue,
                             !.failed = ~(/\ DebugChannelKnown(lib.channel_id)
                                          /\ ReactAccepts(timestamp)
                                          /\ lib.emoticon.type = "str")]
    /\ UNCHANGED botVars

NextDebug ==
    \/ DebugSay
    \/ DebugSayComplete
    \/ DebugReact
    \/ DebugUnreact

SpecDebug == InitDebug /\ [][NextDebug]_vars

\* ------------------------------------------------ the administrator console
\* The console thread (lines 257-271) runs beside the loop: a statement typed
\* into it calls peek_new_messages on the same bot.  The threads interleave
\* between the calls that get_unprocessed_messages and peek_new_messages
\* make: the copy of the buffer, rtm_read, extend, clear.
NoConsole == [fn |-> "console", phase |-> "idle", new |-> <<>>]

InitConsole ==
    /\ Constructed
    /\ env = [events |-> MaxEvents, replies |-> FALSE, says |-> 0, hooks |-> {}]
    /\ lib = NoConsole

\* line 41, left operand: list(self.unprocessed_messages)
DrainCopy ==
    /\ UNCHANGED <<env, lib, session>>
    /\ pc = "drain"
    /\ pc' = "drain_read"
    /\ pending' = unprocessed_messages
    /\ botUnch /\ histUnch /\ timeUnch
    /\ UNCHANGED <<frame, tick, exit, cancelled>>

\* line 41, right operand: self.client.rtm_read()
DrainRead ==
    /\ UNCHANGED <<env, lib, session>>
    /\ pc = "drain_read"
    /\ \/ \E new \in Batches :
             /\ pending' = pending \o new
             /\ read' = read + Len(new)
             /\ pc' = "drain_clear"
             /\ UNCHANGED <<frame, tick, exit, cancelled>>
       \/ /\ Raise("TransportError")
          /\ UNCHANGED read
    /\ botUnch /\ timeUnch
    /\ UNCHANGED <<last_gap, assigned, sends, sent_to, drained, delivered,
                   last_ret, last_sc>>

\* lines 42-43: self.unprocessed_messages.clear(), return result
DrainClear ==
    /\ UNCHANGED <<env, lib, session>>
    /\ pc = "drain_clear"
    /\ pc' = "dispatch"
    /\ unprocessed_messages' = <<>>
    /\ drained' = drained \o Ids(pending)
    /\ last_ret' = [op |-> "drain", result |-> Ids(pending), kept |-> 0]
    /\ tick' = [tick EXCEPT !.drain_done = TRUE, !.drained = Len(pending)]
    /\ timeUnch
    /\ UNCHANGED <<pending, bot_user_id, max_message_id, frame, exit, cancelled,
                   last_gap, assigned, sends, sent_to, read, delivered, last_sc>>

\* line 50, in the console thread: new_messages = self.client.rtm_read()
ConsoleRead ==
    /\ lib.fn = "console"
    /\ lib.phase = "idle"
    /\ pc # "Terminated"
    /\ \E new \in Batches :
          /\ lib' = [lib EXCEPT !.phase = "extend", !.new = new]
          /\ read' = read + Len(new)
    /\ botUnch /\ timeUnch
    /\ UNCHANGED <<env, session, pc, pending, frame, tick, exit, cancelled,
                   last_gap, assigned, sends, sent_to, drained, delivered,
                   last_ret, last_sc>>

\* lines 51-52, in the console thread: self.unprocessed_messages.extend(...)
ConsoleExtend ==
    /\ lib.fn = "console"
    /\ lib.phase = "extend"
    /\ lib' = NoConsole
    /\ unprocessed_messages' = unprocessed_messages \o lib.new
    /\ histUnch /\ timeUnch
    /\ UNCHANGED <<env, session, pc, pending, frame, tick, exit, cancelled,
                   bot_user_id, max_message_id>>

\* the loop with the default on_step and on_message, and the console
NextConsole ==
    \/ Connect
    \/ Authenticate
    \/ BackoffSleep
    \/ CallOnStep
    \/ DrainCopy
    \/ DrainRead
    \/ DrainClear
    \/ CallOnMessage
    \/ DispatchDone
    \/ Ping
    \/ TickSleep
    \/ HookReturn
    \/ ConsoleRead
    \/ ConsoleExtend

SpecConsole == InitConsole /\ [][NextConsole]_vars

\* ============================================================ the claims
Upto(k) == [i \in 1 .. k |-> i]

\* C1: the message ids say returns (a call returns its id exactly when the
\* handoff succeeded) are strictly increasing, hence pairwise distinct, and
\* the first id ever assigned is 1.
C1_IdsIncreasing ==
    /\ \A i, j \in 1 .. Len(sends) : i < j => sends[i] < sends[j]
    /\ assigned # <<>> => assigned[1] = 1

C1_Witness ==
    /\ Len(sends) >= 2
    /\ last_sc.outcome = "returned"

\* C2: the time between two consecutive handoffs to send_to_websocket is
\* never less than one time unit.
C2_MinGap == last_gap >= RateLimit

\* an event that answers the message `id`: it carries ok and its reply_to is id
C_Answers(e, id) == e.ok # "absent" /\ e.reply_to = id

\* the first event the call read that answers its message (0: none)
C_FirstAnswer ==
    IF \E i \in 1 .. Len(last_sc.seen) : C_Answers(last_sc.seen[i], last_sc.id)
    THEN CHOOSE i \in 1 .. Len(last_sc.seen) :
            /\ C_Answers(last_sc.seen[i], last_sc.id)
            /\ \A j \in 1 .. (i - 1) : ~C_Answers(last_sc.seen[j], last_sc.id)
    ELSE 0

C_Ended == {"returned", "Timeout", "SendRejected", "ProtocolError"}

\* C3 as stated: say_complete returns a timestamp iff it read an event with
\* reply_to equal to its id and ok=true.
C3_Original ==
    (last_sc.outcome = "returned")
        <=> (\E i \in 1 .. Len(last_sc.seen) :
                /\ last_sc.seen[i].reply_to = last_sc.id
                /\ last_sc.seen[i].ok = "true")

\* C3 amended: say_complete returns a timestamp iff the first event its
\* polling read within the timeout that carries ok and whose reply_to is its
\* own id has ok=true and a string ts; it returns that event's ts, so never
\* the acknowledgement of another message.
C3_Returns ==
    LET m == C_FirstAnswer IN
    /\ (last_sc.outcome = "returned")
          <=> (m # 0 /\ last_sc.seen[m].ok = "true" /\ last_sc.seen[m].ts # 0)
    /\ last_sc.outcome = "returned" =>
          /\ last_sc.value = last_sc.seen[m].ts
          /\ last_sc.seen[m].reply_to = last_sc.id
          /\ last_sc.elapsed < last_sc.timeout

C3_Witness ==
    /\ last_sc.outcome = "returned"
    /\ \E i \in 1 .. Len(last_sc.seen) :
          /\ last_sc.seen[i].ok = "true"
          /\ last_sc.seen[i].ts # 0
          /\ last_sc.seen[i].reply_to \notin {0, last_sc.id}
          /\ i < C_FirstAnswer

\* C4 as stated: say_complete fails with Timeout iff it read no event whose
\* reply_to equals its id within the timeout.
C4_Original ==
    last_sc.outcome \in C_Ended =>
        ((last_sc.outcome = "Timeout")
            <=> ~(\E i \in 1 .. Len(last_sc.seen) :
                     last_sc.seen[i].reply_to = last_sc.id))

\* C4 amended: a say_complete call that is not ended by a transport failure
\* or a cancellation fails with Timeout iff its polling read no event that
\* carries ok and whose reply_to equals its id; the Timeout is raised only
\* once the timeout has elapsed since the send.
C4_Timeout ==
    /\ last_sc.outcome \in C_Ended =>
          ((last_sc.outcome = "Timeout") <=> C_FirstAnswer = 0)
    /\ last_sc.outcome = "Timeout" => last_sc.elapsed >= last_sc.timeout

C4_Witness ==
    /\ last_sc.outcome = "Timeout"
    /\ \E i \in 1 .. Len(last_sc.seen) : last_sc.seen[i].reply_to = last_sc.id

\* C5 as stated: say_complete fails with SendRejected iff it read an event
\* whose reply_to equals its id with ok=false.
C5_Original ==
    (last_sc.outcome = "SendRejected")
        <=> (\E i \in 1 .. Len(last_sc.seen) :
                /\ last_sc.seen[i].reply_to = last_sc.id
                /\ last_sc.seen[i].ok = "false")

\* C5 amended: say_complete fails with SendRejected iff the first event its
\* polling read that carries ok and whose reply_to equals its id has ok=false.
C5_Rejected ==
    LET m == C_FirstAnswer IN
    (last_sc.outcome = "SendRejected")
        <=> (m # 0 /\ last_sc.seen[m].ok = "false")

C5_Witness ==
    /\ last_sc.outcome = "SendRejected"
    /\ Len(last_sc.seen) >= 2

\* C6: an event read by a peek stays in the buffer until a drain returns it;
\* a drain returns the buffer's events and leaves the buffer empty, and what
\* a drain returned is never in the buffer nor in the result of a peek or a
\* drain again.
C6_PeekDrain ==
    /\ drained \o Ids(unprocessed_messages) = Upto(read)
    /\ last_ret.op = "drain" => unprocessed_messages = <<>>
    /\ last_ret.op \in {"peek_new", "peek_unprocessed"} =>
          \A i \in 1 .. Len(last_ret.result) :
             /\ \E j \in 1 .. Len(unprocessed_messages) :
                   unprocessed_messages[j].n = last_ret.result[i]
             /\ \A j \in 1 .. Len(drained) : drained[j] # last_ret.result[i]

C6_Witness ==
    /\ last_ret.op = "drain"
    /\ last_ret.kept > 0
    /\ Len(drained) > Len(last_ret.result)

\* the events the for loop of start has still to pass to on_message
C_Rest == IF pc = "in_message" THEN Tail(pending) ELSE pending

\* C7: while no cancellation happened, the events passed to on_message, then
\* the events the for loop still holds, then the events in the buffer are
\* exactly the events read from the transport, each once and in the order read.
C7_ExactlyOnceInOrder ==
    ~cancelled =>
        delivered \o Ids(C_Rest) \o Ids(unprocessed_messages) = Upto(read)

C7_Witness ==
    /\ ~cancelled
    /\ pc = "ping"
    /\ Len(delivered) >= 2
    /\ \E i \in 1 .. Len(last_sc.seen) : last_sc.seen[i].n = delivered[Len(delivered)]

\* C8: an exception of on_message other than a cancellation never leaves
\* start, and when the for loop of a tick ends on_message was called for
\* every event drained in that tick.
C8_MessageHookIsolated ==
    /\ exit.from = "in_message" => exit.exc = "KeyboardInterrupt"
    /\ (tick.failed_at # 0 /\ pc \in {"ping", "tick_sleep"}) =>
          tick.called = tick.drained

C8_Witness ==
    /\ pc = "ping"
    /\ tick.failed_at = 1
    /\ tick.called = 2

\* C9: an exception of on_step other than a cancellation never leaves start
\* (no backoff, no reconnect), and the tick goes on: it drains, dispatches
\* every event and performs the keepalive check.
C9_StepHookIsolated ==
    /\ exit.from = "in_step" => exit.exc = "KeyboardInterrupt"
    /\ (tick.step_failed /\ pc = "tick_sleep") =>
          /\ tick.drain_done
          /\ tick.called = tick.drained
          /\ tick.ping_checked

C9_Witness ==
    /\ tick.step_failed
    /\ pc = "tick_sleep"
    /\ tick.drained > 0

\* C10: once a KeyboardInterrupt was raised, wherever it was, the loop is
\* Terminated and stays so: connect is not called again.
C10_CancellationTerminates == cancelled => pc = "Terminated"

C10_Witness ==
    /\ cancelled
    /\ exit.from = "in_message"
    /\ exit.phase = "poll_sleep"

\* the positions of the while loop of start: the session is connected
C_Running == {"step", "in_step", "step_failed", "drain", "dispatch",
              "in_message", "message_failed", "ping", "tick_sleep"}

\* C11 as stated: every transport failure while connected, also one inside
\* say, say_complete or a peek called from a hook, takes the loop to the
\* backoff.
C11_Original ==
    [][((tick'.logged = "TransportError" /\ tick.logged # "TransportError")
          \/ (exit'.exc = "TransportError" /\ exit' # exit))
         => pc' = "backoff"]_vars

\* C11 amended: a transport failure of the loop body's own operations (the
\* event read of the drain, the liveness probe) ends start, and the loop
\* sleeps the backoff of 5 time units and calls connect again; a transport
\* failure inside a hook never ends start: the hook's except clause logs it.
C11_LoopFailureRestarts ==
    /\ exit.exc = "TransportError" =>
          /\ exit.from \in {"drain", "ping"}
          /\ pc \in {"backoff", "connect"}
          /\ pc = "connect" => (exit.asked = Backoff /\ exit.waited >= Backoff)
    /\ tick.logged = "TransportError" => pc \in {"step_failed", "message_failed"}

C11_Witness ==
    /\ exit.exc = "TransportError"
    /\ exit.from = "ping"
    /\ pc = "connect"
    /\ exit.waited >= Backoff

\* C12: while the session is connected, the last liveness probe (or the
\* connection, before the first probe) is never more than 5 time units old.
C12_PingEveryInterval ==
    pc \in C_Running => Now - last_ping <= PingInterval

\* C13: a say or say_complete call whose channel id is unknown fails with
\* InvalidChannel in the calling hook and changes nothing: no handoff, no
\* message id consumed, last_say_time untouched, no event read; and every
\* handoff is for a known channel.
C13_InvalidChannelNoEffect ==
    [][/\ (tick'.logged = "InvalidChannel" /\ tick.logged # "InvalidChannel") =>
             /\ pc' \in {"step_failed", "message_failed"}
             /\ UNCHANGED <<max_message_id, last_say_time, last_send, assigned,
                            sends, sent_to, read, unprocessed_messages>>
       /\ sends' # sends => ~get_channel_name_by_id(sent_to').none]_vars

C13_Witness ==
    /\ tick.logged = "InvalidChannel"
    /\ Len(sends) >= 1
    /\ max_message_id = Len(sends) + 1

\* C14: when say_complete failed with Timeout its message was handed to the
\* transport exactly once and its id stays consumed; no event read is lost
\* (each is delivered to on_message, held by the for loop or in the buffer),
\* and a call that a reply ended was ended by a reply to its own message.
C14_TimeoutKeepsSend ==
    /\ last_sc.outcome = "Timeout" =>
          /\ Cardinality({i \in 1 .. Len(sends) : sends[i] = last_sc.id}) = 1
          /\ max_message_id > last_sc.id
          /\ \A i, j \in 1 .. Len(assigned) :
                (assigned[i] = last_sc.id /\ i < j) => assigned[j] > last_sc.id
          /\ delivered \o Ids(C_Rest) \o Ids(unprocessed_messages) = Upto(read)
    /\ last_sc.outcome \in {"returned", "SendRejected", "ProtocolError"} =>
          /\ C_FirstAnswer # 0
          /\ last_sc.seen[C_FirstAnswer].reply_to = last_sc.id

\* a say_complete call timed out and the acknowledgement of its message,
\* read by the drain afterwards, is passed to on_message
C14_Witness ==
    /\ last_sc.outcome = "Timeout"
    /\ pc = "in_message"
    /\ Head(pending).reply_to = last_sc.id
    /\ Head(pending).ok = "true"
    /\ \A i \in 1 .. Len(last_sc.seen) : last_sc.seen[i].n # Head(pending).n
    /\ delivered[Len(delivered)] = Head(pending).n


\* C15: for every plain text, also one that holds markup characters,
\* semicolons and entity names, sendable_text_to_text applied to the result of
\* text_to_sendable_text gives the text back and raises no format error.
C15_RoundTrip ==
    (lib.fn = "codec" /\ lib.stage = "back") =>
        (lib.error = "none" /\ lib.text = lib.plain)

C15_Witness ==
    /\ lib.fn = "codec"
    /\ lib.stage = "back"
    /\ lib.plain = <<"&", "l", "t", ";", "<">>
    /\ lib.text = lib.plain

\* C16: get_channel_id_by_name of <#ID> or <#ID|label> returns ID and
\* get_user_id_by_name of <@ID> or <@ID|label> returns ID, whatever the
\* snapshot holds (nothing, or an entry named like the reference).
C16_ReferenceResolves ==
    (/\ lib.fn = "lookup"
     /\ lib.stage = "done"
     /\ lib.query.kind = "reference"
     /\ lib.query.sigil = (IF lib.by = "channel" THEN "#" ELSE "@")) =>
        lib.result = Some(lib.query.id)

C16_Witness ==
    /\ lib.fn = "lookup"
    /\ lib.stage = "done"
    /\ lib.by = "channel"
    /\ lib.query.name = <<"<", "#", "C", "1", ">">>
    /\ \E i \in 1 .. Len(lib.entries) : lib.entries[i].name = lib.query.name
    /\ lib.result = Some(<<"C", "1">>)

\* C17: in each call of start, auth.test is called only after rtm_connect
\* succeeded; the hooks run, events are read and probes are sent only after
\* auth.test succeeded and bot_user_id is set; a refused connect raises
\* ConnectionError with auth.test not called, a failed auth.test raises the
\* authentication error with no hook run.
C17_LifecycleOrder ==
    /\ session.auth_called => session.connected
    /\ session.hooked => (session.authenticated /\ bot_user_id # "None")
    /\ pc \in C_Running => (session.authenticated /\ bot_user_id # "None")
    /\ exit.from = "connect" =>
          exit.exc \in {"ConnectionError", "KeyboardInterrupt"}
    /\ exit.exc = "ConnectionError" =>
          /\ exit.from = "connect"
          /\ ~session.connected
          /\ ~session.auth_called
          /\ ~session.hooked
    /\ exit.from = "auth" =>
          exit.exc \in {"AuthenticationError", "KeyboardInterrupt"}
    /\ exit.exc = "AuthenticationError" =>
          /\ exit.from = "auth"
          /\ session.auth_called
          /\ ~session.authenticated
          /\ ~session.hooked

C17_Witness ==
    /\ exit.exc = "AuthenticationError"
    /\ pc = "backoff"
    /\ read > 0
    /\ ~session.hooked

\* C18: start_loop is Terminated only after a KeyboardInterrupt; after any
\* other exception of start it sleeps the backoff of 5 time units and calls
\* connect again, however often start has failed.
C18_OnlyCancellationTerminates ==
    /\ pc = "Terminated" => (cancelled /\ exit.exc = "KeyboardInterrupt")
    /\ exit.exc \in Exceptions =>
          /\ pc \in {"backoff", "connect"}
          /\ pc = "connect" => (exit.asked = Backoff /\ exit.waited >= Backoff)
    /\ (pc = "connect" /\ exit.exc = "none") => session = NoSession

C18_Witness ==
    /\ pc = "connect"
    /\ exit.exc = "ConnectionError"
    /\ exit.waited >= Backoff
    /\ read > 0

\* C19 as stated: the first message id assigned in a call of start (seen in
\* the first iteration of its loop) is 1, also after a reconnect.
C19_Original == session.first_id \in {0, 1}

\* C19 amended: the counter belongs to the bot, not to the session: it is
\* never reset, so the ids assigned are 1, 2, 3, ... across reconnects.
C19_CounterNotReset ==
    /\ assigned = Upto(Len(assigned))
    /\ max_message_id = Len(assigned) + 1
    /\ session.first_id # 0 => session.first_id \in 1 .. Len(assigned)

C19_Witness ==
    /\ session.first_id = 2
    /\ session.connected

\* C20: the value a successful say_complete returned satisfies the assert
\* react and unreact make on their timestamp (it is a string), in SlackBot
\* (the value of last_sc is the ts of the reply, never 0: a string) and in
\* SlackDebugBot.
C20_ReturnedTimestampAccepted ==
    /\ last_sc.outcome = "returned" => last_sc.value # 0
    /\ (lib.fn = "debug" /\ lib.last = "say_complete" /\ ~lib.failed) =>
          ReactAccepts(lib.returned)

\* C21 as stated: whenever the polling of say_complete read an event with
\* reply_to equal to its id, ok=true and no string ts, the call fails with
\* the protocol error.
C21_Original ==
    (\E i \in 1 .. Len(last_sc.seen) :
        /\ last_sc.seen[i].reply_to = last_sc.id
        /\ last_sc.seen[i].ok = "true"
        /\ last_sc.seen[i].ts = 0)
        => last_sc.outcome = "ProtocolError"

\* C21 amended: say_complete fails with the protocol error, returning no
\* value and before its timeout, iff the first event its polling read that
\* carries ok and whose reply_to is its id has ok=true and no string ts; that
\* event is in the buffer until the drain of the tick returns it to the for
\* loop, which passes it to on_message.
C21_MalformedAck ==
    LET m == C_FirstAnswer IN
    /\ (last_sc.outcome = "ProtocolError")
          <=> (m # 0 /\ last_sc.seen[m].ok = "true" /\ last_sc.seen[m].ts = 0)
    /\ last_sc.outcome = "ProtocolError" =>
          /\ last_sc.value = 0
          /\ last_sc.elapsed < last_sc.timeout
          /\ LET held == IF tick.drain_done
                         THEN delivered \o Ids(C_Rest)
                         ELSE Ids(unprocessed_messages)
             IN \E j \in 1 .. Len(held) : held[j] = last_sc.seen[m].n

C21_Witness ==
    /\ last_sc.outcome = "ProtocolError"
    /\ pc = "in_message"
    /\ Head(pending).n = last_sc.seen[C_FirstAnswer].n
    /\ Head(pending).ts = 0

\* C22: a say_complete call whose timeout is not positive fails with
\* InvalidTimeout in the calling hook and changes nothing: no handoff, no
\* message id consumed, last_say_time untouched, no event read; and every
\* say_complete call that sends has a positive timeout.
C22_InvalidTimeoutNoEffect ==
    [][/\ (tick'.logged = "InvalidTimeout" /\ tick.logged # "InvalidTimeout") =>
             /\ pc' \in {"step_failed", "message_failed"}
             /\ frame' = IdleFrame
             /\ UNCHANGED <<max_message_id, last_say_time, last_send, assigned,
                            sends, sent_to, read, unprocessed_messages, last_sc>>
       /\ (last_sc'.id # last_sc.id /\ last_sc'.id # 0) =>
             last_sc'.timeout > 0]_vars

C22_Witness ==
    /\ tick.logged = "InvalidTimeout"
    /\ pc = "step_failed"
    /\ Len(sends) >= 2
    /\ max_message_id = Len(sends) + 1
    /\ unprocessed_messages = <<>>

\* C23: last_say_time is set to a later instant (it moves forward against
\* the clock) only by a step of say that hands a message to the transport:
\* no other operation, and no say call that fails, changes it.
C23_ChangedOnlyByAcceptedSend ==
    [][last_say_time' > last_say_time => sends' # sends]_vars

\* the angle brackets of s alternate, < first and > last: s is made of
\* characters that are no angle bracket and of sequences <...> that hold none
RECURSIVE C24_Alternate(_, _)
C24_Alternate(s, open) ==
    IF s = <<>> THEN ~open
    ELSE IF Head(s) = "<" THEN ~open /\ C24_Alternate(Tail(s), TRUE)
    ELSE IF Head(s) = ">" THEN open /\ C24_Alternate(Tail(s), FALSE)
    ELSE C24_Alternate(Tail(s), open)

\* C24: sendable_text_to_text and server_text_to_sendable_text raise the
\* format error exactly for the texts in which an angle bracket stands
\* outside every sequence <...> that holds no angle bracket, and return a
\* text for every other input.
C24_FormatErrorExactly ==
    (lib.fn = "wire" /\ lib.stage = "done") =>
        /\ lib.error \in {"none", "FormatError"}
        /\ (lib.error = "FormatError") <=> ~C24_Alternate(lib.input, FALSE)

C24_Witness ==
    /\ lib.fn = "wire"
    /\ lib.stage = "done"
    /\ lib.by = "server_text_to_sendable_text"
    /\ lib.input = <<"<", "a", ">", ">">>
    /\ lib.error = "FormatError"

\* C25: with the console thread peeking while the loop drains, every event
\* read from the transport is somewhere (passed to on_message, held by the
\* for loop or by the drain in progress, in the buffer, or in the hands of
\* the peek in progress), and no event is passed to on_message twice.
C25_NoEventLost ==
    /\ \A n \in 1 .. read :
          \/ \E i \in 1 .. Len(delivered) : delivered[i] = n
          \/ \E i \in 1 .. Len(pending) : pending[i].n = n
          \/ \E i \in 1 .. Len(unprocessed_messages) : unprocessed_messages[i].n = n
          \/ lib.fn = "console" /\ \E i \in 1 .. Len(lib.new) : lib.new[i].n = n
    /\ \A i, j \in 1 .. Len(delivered) : i < j => delivered[i] # delivered[j]

\* C26: every say_complete call ends (it returns or raises): its rate-limit
\* sleep is asked for at most 1 time unit, every sleep of its polling starts
\* before the timeout has elapsed since the send, so the call ends at the
\* first evaluation of the loop condition after the timeout, one slice at
\* most after it; and as time advances that evaluation comes.
C26_SayCompleteTerminates ==
    /\ [](frame.phase = "rate_sleep" => frame.req <= RateLimit)
    /\ [](frame.phase = "poll_sleep" => Now - frame.start_time < frame.timeout)
    /\ (frame.op = "say_complete") ~> (frame.op = "none")

C26_Witness ==
    /\ last_sc.outcome = "Timeout"
    /\ frame.op = "none"
    /\ last_sc.id > FirstMessageId
    /\ last_sc.seen # <<>>
    /\ \A i \in 1 .. Len(last_sc.seen) : last_sc.seen[i].reply_to # last_sc.id

\* C27: last_say_time is never later than the current time, and the sleep
\* say asks for before a send is between 0 and 1 time unit.
C27_LastSayTimeNotLater ==
    /\ last_say_time <= Now
    /\ frame.phase = "rate_sleep" => (frame.req >= 0 /\ frame.req <= RateLimit)

C27_Witness ==
    /\ frame.phase = "rate_sleep"
    /\ frame.req = RateLimit
    /\ Len(sends) >= 2
    /\ last_gap = RateLimit

\* C28: when start has failed and start_loop restarts it, the events in the
\* buffer are kept (with the events passed to on_message they are all the
\* events read), and on_message gets the events in the order they were
\* read from the transport: the buffered ones before any event read later,
\* from the new connection.  The buffer still holds what it held at the
\* reconnect when the first drain of the new session starts, and that drain
\* returns it.
C28_BufferSurvivesRestart ==
    ~cancelled =>
        /\ pc \in {"backoff", "connect", "auth"} =>
              delivered \o Ids(unprocessed_messages) = Upto(read)
        /\ LET passed == delivered \o Ids(C_Rest) IN passed = Upto(Len(passed))
        /\ pc \in {"auth", "step", "in_step", "step_failed", "drain"} =>
              Len(unprocessed_messages) >= session.kept
        /\ (session.first_tick /\ pc \in {"dispatch", "in_message",
                                         "message_failed", "ping", "tick_sleep"}) =>
              tick.drained >= session.kept

\* the first tick after a reconnect: the drain returned the events the
\* buffer held across the restart and an event of the new connection, and
\* on_message is called with the first of the buffered ones
C28_Witness ==
    /\ ~cancelled
    /\ session.first_tick
    /\ session.kept > 0
    /\ pc = "in_message"
    /\ tick.called = 1
    /\ tick.drained > session.kept
    /\ last_ret.op = "drain"
    /\ last_ret.kept = session.kept

====
